---------------------------- MODULE Spec2Model ----------------------------
(* Dataset routes (rubrix/server/datasets/api.py) over the datasets        *)
(* service, and the local users service                                    *)
(* (rubrix/server/security/auth_provider/local/users/service.py).          *)
EXTENDS Naturals, Sequences, FiniteSets

VARIABLES
    datasets,   \* the Dataset Store: name -> dataset record, for the names that exist
    deleted,    \* history: names removed by a successful delete and not created since
    resp,       \* the last dataset request and what the route returned or raised
    users,      \* the Credential Store the users DAOs read: username -> user record
    _instance,  \* service.py:50, the module-level cached UsersService
    created,    \* number of UsersService objects constructed so far (object identity)
    firstDao,   \* history: the DAO passed to the first create_users_service call
    uresp       \* the last users-service call and what it returned

dvars == <<datasets, deleted, resp>>
uvars == <<users, _instance, created, firstDao, uresp>>
vars == <<datasets, deleted, resp, users, _instance, created, firstDao, uresp>>

-----------------------------------------------------------------------------
(* Bounds and finite domains                                               *)

MaxValue == 2
MaxPassword == 2
MaxSalt == 2

Names == {"reviews", "tickets"}
NameOrder == <<"reviews", "tickets">>
Groups == {"team-a", "team-b"}
Fields == {"a"}
Values == 1..MaxValue
States == {"open", "closed"}

Dataset == [name : Names, owner : Groups, state : States, settings : [Fields -> Values]]

\* A partial update: values for some of the updatable fields, none for the others
\* (name, owner and state are never part of it).
UpdateDatasetRequest == UNION {[S -> Values] : S \in SUBSET Fields}
NoData == << >>

\* The users the access layer resolves: one acting inside one of several groups,
\* one acting in a group outside user_groups, one in a single group, and one with
\* no groups at all.
User == {
    [username |-> "ann", user_groups |-> {"team-a", "team-b"}, current_group |-> "team-a"],
    [username |-> "bob", user_groups |-> {"team-a"}, current_group |-> "team-b"],
    [username |-> "cat", user_groups |-> {"team-b"}, current_group |-> "team-b"],
    [username |-> "eve", user_groups |-> {}, current_group |-> "team-a"] }

Ingestor(owner) == [username |-> "ingest", user_groups |-> {owner}, current_group |-> owner]

-----------------------------------------------------------------------------
(* Dataset Store                                                           *)

dao_get(st, name) == IF name \in DOMAIN st THEN <<st[name]>> ELSE << >>

dao_put(st, d) == [n \in DOMAIN st \cup {d.name} |-> IF n = d.name THEN d ELSE st[n]]

dao_remove(st, name) == [n \in DOMAIN st \ {name} |-> st[n]]

dao_list(st, owners) ==
    LET hit(n) == n \in DOMAIN st /\ st[n].owner \in owners
        ns == SelectSeq(NameOrder, hit)
    IN [i \in 1..Len(ns) |-> st[ns[i]]]

-----------------------------------------------------------------------------
(* Datasets service: each operation yields the outcome, the value returned *)
(* and the store after it.                                                 *)

Raise(st, error) == [status |-> error, value |-> << >>, store |-> st]
Return(st, value) == [status |-> "ok", value |-> value, store |-> st]

service_list(st, owners) == Return(st, dao_list(st, owners))

\* Existence first, ownership second.
service_find_by_name(st, name, owner) ==
    LET found == dao_get(st, name) IN
    IF found = << >> THEN Raise(st, "NotFound")
    ELSE IF found[1].owner # owner THEN Raise(st, "NotAuthorized")
    ELSE Return(st, found)

merge_settings(d, data) ==
    [d EXCEPT !.settings = [f \in Fields |-> IF f \in DOMAIN data THEN data[f] ELSE d.settings[f]]]

\* Faulty variant: writes without the ownership check and stamps the caller as owner.
service_update_stamps_owner(st, name, data, owner) ==
    LET found == dao_get(st, name) IN
    IF found = << >> THEN Raise(st, "NotFound")
    ELSE LET updated == [merge_settings(found[1], data) EXCEPT !.owner = owner]
         IN Return(dao_put(st, updated), <<updated>>)

service_update(st, name, data, owner) ==
    LET found == service_find_by_name(st, name, owner) IN
    IF found.status # "ok" THEN found
    ELSE LET updated == merge_settings(found.value[1], data)
         IN Return(dao_put(st, updated), <<updated>>)

service_delete(st, name, owner) ==
    LET found == service_find_by_name(st, name, owner) IN
    IF found.status # "ok" THEN found
    ELSE Return(dao_remove(st, name), << >>)

set_state(st, name, owner, state) ==
    LET found == service_find_by_name(st, name, owner) IN
    IF found.status # "ok" THEN found
    ELSE Return(dao_put(st, [found.value[1] EXCEPT !.state = state]), << >>)

service_close_dataset(st, name, owner) == set_state(st, name, owner, "closed")

service_open_dataset(st, name, owner) == set_state(st, name, owner, "open")

-----------------------------------------------------------------------------
(* Routes                                                                  *)

\* What the caller of a route sees: the request, and the value or the failure.
Response(op, name, current_user, data, r) ==
    [op |-> op, name |-> name, user |-> current_user, data |-> data,
     status |-> r.status, value |-> r.value]

\* Creation belongs to the ingestion path: a new name enters the store, open.
ingest(name, owner, settings) ==
    LET d == [name |-> name, owner |-> owner, state |-> "open", settings |-> settings] IN
    /\ name \notin DOMAIN datasets
    /\ datasets' = dao_put(datasets, d)
    /\ deleted' = deleted \ {name}
    /\ resp' = Response("ingest", name, Ingestor(owner), NoData, Return(datasets', <<d>>))
    /\ UNCHANGED uvars

\* Faulty variant: lists by the current group alone.
list_datasets_by_current_group(current_user) ==
    LET r == service_list(datasets, {current_user.current_group}) IN
    /\ datasets' = r.store
    /\ deleted' = deleted
    /\ resp' = Response("list_datasets", "", current_user, NoData, r)
    /\ UNCHANGED uvars

list_datasets(current_user) ==
    LET r == service_list(datasets, current_user.user_groups) IN
    /\ datasets' = r.store
    /\ deleted' = deleted
    /\ resp' = Response("list_datasets", "", current_user, NoData, r)
    /\ UNCHANGED uvars

\* Faulty variant: scopes by any of the caller's groups.
get_dataset_by_any_group(name, current_user) ==
    \E g \in current_user.user_groups :
        LET r == service_find_by_name(datasets, name, g) IN
        /\ datasets' = r.store
        /\ deleted' = deleted
        /\ resp' = Response("get_dataset", name, current_user, NoData, r)
        /\ UNCHANGED uvars

get_dataset(name, current_user) ==
    LET r == service_find_by_name(datasets, name, current_user.current_group) IN
    /\ datasets' = r.store
    /\ deleted' = deleted
    /\ resp' = Response("get_dataset", name, current_user, NoData, r)
    /\ UNCHANGED uvars

\* Faulty variant: resolves the dataset and drops the request.
update_dataset_only_finds(name, update_request, current_user) ==
    LET r == service_find_by_name(datasets, name, current_user.current_group) IN
    /\ datasets' = r.store
    /\ deleted' = deleted
    /\ resp' = Response("update_dataset", name, current_user, update_request, r)
    /\ UNCHANGED uvars

update_dataset(name, update_request, current_user) ==
    LET r == service_update(datasets, name, update_request, current_user.current_group) IN
    /\ datasets' = r.store
    /\ deleted' = deleted
    /\ resp' = Response("update_dataset", name, current_user, update_request, r)
    /\ UNCHANGED uvars

\* Faulty variant: scopes by any of the caller's groups.
delete_dataset_by_any_group(name, current_user) ==
    \E g \in current_user.user_groups :
        LET r == service_delete(datasets, name, g) IN
        /\ datasets' = r.store
        /\ deleted' = IF r.status = "ok" THEN deleted \cup {name} ELSE deleted
        /\ resp' = Response("delete_dataset", name, current_user, NoData, r)
        /\ UNCHANGED uvars

\* Faulty variant: releases the dataset's resources and keeps the record.
delete_dataset_only_closes(name, current_user) ==
    LET r == service_close_dataset(datasets, name, current_user.current_group) IN
    /\ datasets' = r.store
    /\ deleted' = IF r.status = "ok" THEN deleted \cup {name} ELSE deleted
    /\ resp' = Response("delete_dataset", name, current_user, NoData, r)
    /\ UNCHANGED uvars

delete_dataset(name, current_user) ==
    LET r == service_delete(datasets, name, current_user.current_group) IN
    /\ datasets' = r.store
    /\ deleted' = IF r.status = "ok" THEN deleted \cup {name} ELSE deleted
    /\ resp' = Response("delete_dataset", name, current_user, NoData, r)
    /\ UNCHANGED uvars

\* Faulty variant: calls the open operation.
close_dataset_opens(name, current_user) ==
    LET r == service_open_dataset(datasets, name, current_user.current_group) IN
    /\ datasets' = r.store
    /\ deleted' = deleted
    /\ resp' = Response("close_dataset", name, current_user, NoData, r)
    /\ UNCHANGED uvars

close_dataset(name, current_user) ==
    LET r == service_close_dataset(datasets, name, current_user.current_group) IN
    /\ datasets' = r.store
    /\ deleted' = deleted
    /\ resp' = Response("close_dataset", name, current_user, NoData, r)
    /\ UNCHANGED uvars

\* Faulty variant: scopes by any of the caller's groups.
open_dataset_by_any_group(name, current_user) ==
    \E g \in current_user.user_groups :
        LET r == service_open_dataset(datasets, name, g) IN
        /\ datasets' = r.store
        /\ deleted' = deleted
        /\ resp' = Response("open_dataset", name, current_user, NoData, r)
        /\ UNCHANGED uvars

open_dataset(name, current_user) ==
    LET r == service_open_dataset(datasets, name, current_user.current_group) IN
    /\ datasets' = r.store
    /\ deleted' = deleted
    /\ resp' = Response("open_dataset", name, current_user, NoData, r)
    /\ UNCHANGED uvars

-----------------------------------------------------------------------------
(* Users service                                                           *)

DAOs == {"dao1", "dao2"}
Usernames == {"alice", "bob"}
Passwords == 1..MaxPassword
Salts == 1..MaxSalt
ApiKeys == {"key-alice", "key-bob", "key-none"}

api_key_of(username) == IF username = "alice" THEN "key-alice" ELSE "key-bob"

\* The bcrypt scheme of __PWD_CONTEXT__: the digest embeds its salt, and the
\* checksum depends on the salt and on the password.
bcrypt(salt, password) ==
    [salt |-> salt, checksum |-> salt * (MaxPassword + 1) + password]

\* hash() draws a fresh salt: any of these digests may come back.
__get_password_hash__(password) == {bcrypt(salt, password) : salt \in Salts}

__verify_password__(password, hashed_password) ==
    bcrypt(hashed_password.salt, password) = hashed_password

\* The records a Credential Store may hold for a username.
Enrolled(username) ==
    {[username |-> username, hashed_password |-> h, api_key |-> api_key_of(username)] :
        h \in UNION {__get_password_hash__(p) : p \in Passwords}}

CredentialStores ==
    UNION {{t \in [S -> UNION {Enrolled(u) : u \in S}] : \A u \in S : t[u].username = u} :
           S \in SUBSET Usernames}

dao_get_user(username) == IF username \in DOMAIN users THEN <<users[username]>> ELSE << >>

dao_get_user_by_api_key(api_key) ==
    LET hit == {u \in DOMAIN users : users[u].api_key = api_key} IN
    IF hit = {} THEN << >> ELSE <<users[CHOOSE u \in hit : TRUE]>>

UsersService(id, dao) == [id |-> id, dao |-> dao]

UsersResponse(op, dao, username, password, api_key, service, user) ==
    [op |-> op, dao |-> dao, username |-> username, password |-> password,
     api_key |-> api_key, service |-> service, user |-> user]

\* Faulty variant: builds a service on every call.
create_users_service_always_builds(dao) ==
    /\ _instance' = <<UsersService(created + 1, dao)>>
    /\ created' = created + 1
    /\ firstDao' = IF firstDao = "" THEN dao ELSE firstDao
    /\ uresp' = UsersResponse("create_users_service", dao, "", 0, "", _instance', << >>)
    /\ UNCHANGED <<users, dvars>>

create_users_service(dao) ==
    /\ _instance' = IF _instance = << >> THEN <<UsersService(created + 1, dao)>> ELSE _instance
    /\ created' = IF _instance = << >> THEN created + 1 ELSE created
    /\ firstDao' = IF firstDao = "" THEN dao ELSE firstDao
    /\ uresp' = UsersResponse("create_users_service", dao, "", 0, "", _instance', << >>)
    /\ UNCHANGED <<users, dvars>>

\* Faulty variant: returns the user found, whatever the password.
authenticate_user_skips_verify(username, password) ==
    LET user == dao_get_user(username) IN
    /\ _instance # << >>
    /\ uresp' = UsersResponse("authenticate_user", _instance[1].dao, username, password, "",
                              << >>, user)
    /\ UNCHANGED <<users, _instance, created, firstDao, dvars>>

authenticate_user(username, password) ==
    LET user == dao_get_user(username) IN
    /\ _instance # << >>
    /\ uresp' = UsersResponse("authenticate_user", _instance[1].dao, username, password, "",
                              << >>,
                              IF user # << >> /\ __verify_password__(password, user[1].hashed_password)
                              THEN user ELSE << >>)
    /\ UNCHANGED <<users, _instance, created, firstDao, dvars>>

get_user(username) ==
    /\ _instance # << >>
    /\ uresp' = UsersResponse("get_user", _instance[1].dao, username, 0, "",
                              << >>, dao_get_user(username))
    /\ UNCHANGED <<users, _instance, created, firstDao, dvars>>

find_user_by_api_key(api_key) ==
    /\ _instance # << >>
    /\ uresp' = UsersResponse("find_user_by_api_key", _instance[1].dao, "", 0, api_key,
                              << >>, dao_get_user_by_api_key(api_key))
    /\ UNCHANGED <<users, _instance, created, firstDao, dvars>>

-----------------------------------------------------------------------------
(* Specification of the dataset routes                                     *)

NoRequest ==
    [op |-> "none", name |-> "", user |-> Ingestor("team-a"), data |-> NoData,
     status |-> "ok", value |-> << >>]

NoCall == UsersResponse("none", "", "", 0, "", << >>, << >>)

InitDatasets ==
    /\ datasets = << >>
    /\ deleted = {}
    /\ resp = NoRequest

InitUsers ==
    /\ _instance = << >>
    /\ created = 0
    /\ firstDao = ""
    /\ uresp = NoCall

Init ==
    /\ InitDatasets
    /\ InitUsers
    /\ users = << >>

Next ==
    \/ \E n \in Names, g \in Groups, s \in [Fields -> Values] : ingest(n, g, s)
    \/ \E u \in User : list_datasets(u)
    \/ \E n \in Names, u \in User : get_dataset(n, u)
    \/ \E n \in Names, u \in User, data \in UpdateDatasetRequest : update_dataset(n, data, u)
    \/ \E n \in Names, u \in User : delete_dataset(n, u)
    \/ \E n \in Names, u \in User : close_dataset(n, u)
    \/ \E n \in Names, u \in User : open_dataset(n, u)

Spec == Init /\ [][Next]_vars

(* Specification of the users service, over any Credential Store           *)

InitUsersService ==
    /\ InitDatasets
    /\ InitUsers
    /\ users \in CredentialStores

NextUsersService ==
    \/ \E dao \in DAOs : create_users_service(dao)
    \/ \E u \in Usernames, p \in Passwords : authenticate_user(u, p)
    \/ \E u \in Usernames : get_user(u)
    \/ \E k \in ApiKeys : find_user_by_api_key(k)

SpecUsers == InitUsersService /\ [][NextUsersService]_vars

-----------------------------------------------------------------------------
(* Properties of the dataset routes                                        *)

OwnerScopedOps ==
    {"get_dataset", "update_dataset", "delete_dataset", "close_dataset", "open_dataset"}

\* The caller's scope in the last (or, primed, the current) owner-scoped request.
Scope(q) == q.user.current_group

Owned(st, q) == q.name \in DOMAIN st /\ st[q.name].owner = Scope(q)

Foreign(st, q) == q.name \in DOMAIN st /\ st[q.name].owner # Scope(q)

\* Every dataset other than `name` is as it was.
OthersUntouched(name) ==
    \A m \in Names \ {name} :
        /\ m \in DOMAIN datasets' <=> m \in DOMAIN datasets
        /\ m \in DOMAIN datasets => datasets'[m] = datasets[m]

\* C1: findByName(name, G) returns the stored dataset exactly when it exists and
\* its owner is G; it fails NotAuthorized when the name exists under another
\* owner and NotFound when no dataset has that name.
C1_FindByName ==
    resp.op = "get_dataset" =>
        /\ Owned(datasets, resp) => resp.status = "ok" /\ resp.value = <<datasets[resp.name]>>
        /\ Foreign(datasets, resp) => resp.status = "NotAuthorized" /\ resp.value = << >>
        /\ resp.name \notin DOMAIN datasets => resp.status = "NotFound" /\ resp.value = << >>

C1_Witness ==
    /\ resp.op = "get_dataset"
    /\ resp.status = "ok"
    /\ resp.user.current_group \notin resp.user.user_groups
    /\ \E n \in DOMAIN datasets : datasets[n].owner # Scope(resp)

\* C3: list(owners) returns exactly the datasets whose owner is in the owner
\* set, each once, and succeeds with an empty sequence when none matches.
C3_List ==
    resp.op = "list_datasets" =>
        LET visible == {n \in DOMAIN datasets : datasets[n].owner \in resp.user.user_groups} IN
        /\ resp.status = "ok"
        /\ {resp.value[i] : i \in 1..Len(resp.value)} = {datasets[n] : n \in visible}
        /\ Len(resp.value) = Cardinality(visible)

C3_Witness ==
    /\ resp.op = "list_datasets"
    /\ Len(resp.value) = 1
    /\ Cardinality(DOMAIN datasets) = 2

\* What C4 asks of one step.
C4_Step ==
    (resp'.op \in OwnerScopedOps /\ Foreign(datasets, resp')) =>
        /\ resp'.status = "NotAuthorized"
        /\ resp'.value = << >>
        /\ datasets' = datasets

\* C4: an owner-scoped call on a dataset of another owner fails NotAuthorized,
\* returns nothing and leaves the whole store as it was.
C4_ForeignRejected == [][C4_Step]_vars

C4_Witness ==
    /\ resp.op = "delete_dataset"
    /\ resp.status = "NotAuthorized"
    /\ Foreign(datasets, resp)
    /\ Scope(resp) \in resp.user.user_groups

\* What C5 asks of one step.
C5_Step ==
    /\ \A n \in DOMAIN datasets' : datasets'[n].state \in States
    /\ \A n \in DOMAIN datasets \cap DOMAIN datasets' :
           datasets'[n].state # datasets[n].state =>
               resp'.op \in {"close_dataset", "open_dataset"} /\ resp'.name = n
    /\ (resp'.op \in {"close_dataset", "open_dataset"} /\ Owned(datasets, resp')) =>
           /\ resp'.status = "ok"
           /\ datasets' = [datasets EXCEPT ![resp'.name].state =
                              IF resp'.op = "close_dataset" THEN "closed" ELSE "open"]
    /\ (resp'.op = "close_dataset" /\ Foreign(datasets, resp')) =>
           resp'.status = "NotAuthorized" /\ datasets' = datasets
    /\ (resp'.op = "close_dataset" /\ resp'.name \notin DOMAIN datasets) =>
           resp'.status = "NotFound" /\ datasets' = datasets

C6_Step ==
    /\ (resp'.op = "delete_dataset" /\ Owned(datasets, resp')) =>
           /\ resp'.status = "ok"
           /\ resp'.name \notin DOMAIN datasets'
           /\ OthersUntouched(resp'.name)
    /\ (resp'.op \in OwnerScopedOps /\ resp'.name \in deleted) =>
           resp'.status = "NotFound" /\ datasets' = datasets
    /\ deleted' \cap DOMAIN datasets' = {}
    /\ \A n \in deleted \ deleted' : resp'.op = "ingest" /\ resp'.name = n

\* C6: delete by the owner succeeds and removes the record, and until the name
\* is created again every delete, find, update, close and open of it fails
\* NotFound.
C6_DeleteOnce == [][C6_Step]_vars

C6_Witness ==
    /\ resp.op = "delete_dataset"
    /\ resp.status = "NotFound"
    /\ resp.name \in deleted

\* What C7 asks of one step.
C7_Step ==
    (resp'.op = "update_dataset" /\ Owned(datasets, resp')) =>
        LET n == resp'.name
            old == datasets[n]
        IN /\ resp'.status = "ok"
           /\ n \in DOMAIN datasets'
           /\ \A f \in DOMAIN resp'.data : datasets'[n].settings[f] = resp'.data[f]
           /\ \A f \in Fields \ DOMAIN resp'.data : datasets'[n].settings[f] = old.settings[f]
           /\ datasets'[n].name = old.name
           /\ datasets'[n].owner = old.owner
           /\ datasets'[n].state = old.state
           /\ resp'.value = <<datasets'[n]>>
           /\ OthersUntouched(n)

C8_Step ==
    /\ resp'.op = "list_datasets" =>
           \A i \in 1..Len(resp'.value) :
               /\ resp'.value[i].owner \in resp'.user.user_groups
               /\ resp'.value[i].name \in DOMAIN datasets
               /\ datasets[resp'.value[i].name] = resp'.value[i]
    /\ (resp'.op \in OwnerScopedOps /\ resp'.status = "ok") =>
           /\ Owned(datasets, resp')
           /\ OthersUntouched(resp'.name)
           /\ \A i \in 1..Len(resp'.value) :
                  resp'.value[i].name = resp'.name /\ resp'.value[i].owner = Scope(resp')
    /\ (resp'.op \in OwnerScopedOps \cup {"list_datasets"} /\ resp'.status # "ok") =>
           datasets' = datasets /\ resp'.value = << >>

\* C8: through the routes, every listed dataset has its owner among the
\* caller's user_groups, and every successful get, update, delete, close or
\* open acts on a dataset owned by the caller's current_group and on no other.
C8_RoutesScoped == [][C8_Step]_vars

C8_Witness ==
    /\ resp.op = "open_dataset"
    /\ resp.status = "ok"
    /\ resp.user.current_group \notin resp.user.user_groups
    /\ \E n \in DOMAIN datasets : datasets[n].owner \in resp.user.user_groups

\* What C9 asks of one step.
C9_Step ==
    \A n \in DOMAIN datasets \cap DOMAIN datasets' : datasets'[n].owner = datasets[n].owner

\* C9: as long as a dataset exists its owner stays the one it had.
C9_OwnerFixed == [][C9_Step]_vars

C9_Witness ==
    /\ resp.op = "update_dataset"
    /\ resp.status = "ok"
    /\ resp.data = NoData
    /\ \E n \in DOMAIN datasets : datasets[n].owner # datasets[resp.name].owner

-----------------------------------------------------------------------------
(* Properties of the users service                                         *)

\* C2: authenticate_user returns the stored user exactly when the username is
\* in the Credential Store and the password verifies against the stored hash;
\* an unknown username and a wrong password both return the same absent value.
C2_Authenticate ==
    uresp.op = "authenticate_user" =>
        IF /\ uresp.username \in DOMAIN users
           /\ __verify_password__(uresp.password, users[uresp.username].hashed_password)
        THEN uresp.user = <<users[uresp.username]>>
        ELSE uresp.user = << >>

C2_Witness ==
    /\ uresp.op = "authenticate_user"
    /\ uresp.username \in DOMAIN users
    /\ uresp.user = << >>
    /\ \E u \in DOMAIN users : __verify_password__(uresp.password, users[u].hashed_password)

\* C10: every create_users_service call returns the one instance built on the
\* first call and bound to the first call's DAO; it is never replaced.
C10_Singleton ==
    /\ uresp.op = "create_users_service" => uresp.service = _instance /\ firstDao # ""
    /\ firstDao # "" => _instance = <<UsersService(1, firstDao)>>
    /\ firstDao = "" => _instance = << >>

C10_Witness ==
    /\ uresp.op = "create_users_service"
    /\ uresp.dao # firstDao
    /\ uresp.service = <<UsersService(1, firstDao)>>

=============================================================================
